---- MODULE Spec2Model ----
(***************************************************************************)
(* Model of the fixed-width text layout functions of src/profilefetch.py.  *)
(*                                                                         *)
(* A Python str is modelled as a sequence of one-character strings.  The   *)
(* em dash U+2014 is the single character written "EM" here.  Every call   *)
(* of a layout function is one action that records the function called    *)
(* (op), its arguments (args) and the value it returned (ret), and takes   *)
(* pc from "ready" to "done"; the functions keep no state, so a behaviour  *)
(* is one call from the initial state.  The overflow-packing while loop of *)
(* format_bio_line is modelled iteration by iteration on the function's    *)
(* own local variables.  The render loop of generate_svg and the commit    *)
(* script src/action-amend-commit.py have specifications of their own on   *)
(* their own variables, which the layout calls leave alone.                *)
(***************************************************************************)
EXTENDS Integers, Sequences, FiniteSets, TLC

VARIABLES pc, op, args, ret,
          first_line_data, remaining_words, word_index,
          current_line_words, overflow_lines,
          entry_index, y_current, bio_text_start_x, svg_content,
          commands, exit_status

vars == <<pc, op, args, ret, first_line_data, remaining_words, word_index,
          current_line_words, overflow_lines,
          entry_index, y_current, bio_text_start_x, svg_content,
          commands, exit_status>>

bio_locals == <<first_line_data, remaining_words, word_index,
                current_line_words, overflow_lines>>

\* generate_svg: the position in content_lines, the vertical cursor, the x of
\* the bio text and the text elements appended to svg_content
render_locals == <<entry_index, y_current, bio_text_start_x, svg_content>>

\* action-amend-commit.py: the git commands run and the exit status
script_state == <<commands, exit_status>>

(***************************************************************************)
(* Bounds of the model.                                                    *)
(***************************************************************************)
MaxKeyLen == 2
MaxValueLen == 5
MaxTokens == 4
MaxWidth == 21
MaxBioLen == 5
MinBioWidth == 12
MaxBioWidth == 19
MaxMaxLines == 3
MinOverflowWidth == 0
MaxOverflowWidth == 4
MaxNameLen == 4
MinHeaderWidth == 10
MaxHeaderWidth == 20

(***************************************************************************)
(* Python string primitives.                                               *)
(***************************************************************************)
Max(a, b) == IF a >= b THEN a ELSE b

Min(a, b) == IF a <= b THEN a ELSE b

\* c * n : the empty string when n <= 0
Rep(c, n) == [i \in 1..n |-> c]

\* s[:n], a negative n counting from the end
SliceTo(s, n) ==
    IF n >= 0 THEN SubSeq(s, 1, Min(n, Len(s)))
              ELSE SubSeq(s, 1, Max(0, Len(s) + n))

\* s[i+1:], the slice that loses its first element
SliceFrom_next(s, i) == SubSeq(s, i + 2, Len(s))

\* s[i:] for a 0-based i >= 0
SliceFrom(s, i) == SubSeq(s, i + 1, Len(s))

\* s.startswith(c) for a one-character c
StartsWith(s, c) == Len(s) >= 1 /\ s[1] = c

RECURSIVE Join(_, _)
\* sep.join(words)
Join(words, sep) ==
    IF Len(words) = 0 THEN <<>>
    ELSE IF Len(words) = 1 THEN words[1]
    ELSE words[1] \o sep \o Join(Tail(words), sep)

\* the least element of a non-empty set of positions, 0 for the empty set
FirstOf(found) ==
    IF found = {} THEN 0 ELSE CHOOSE k \in found : \A m \in found : k <= m

\* the least position k >= i of s that holds the character c, 0 when none
FirstIndex(s, i, c) == FirstOf({k \in i..Len(s) : s[k] = c})

\* the least position k >= i of s that holds another character than c
FirstOther(s, i, c) == FirstOf({k \in i..Len(s) : s[k] # c})

RECURSIVE SplitFrom(_, _)
\* the words of s that start at or after position i
SplitFrom(s, i) ==
    LET start == FirstOther(s, i, " ")
    IN  IF start = 0 THEN <<>>
        ELSE LET stop == FirstIndex(s, start, " ")
             IN  IF stop = 0 THEN <<SubSeq(s, start, Len(s))>>
                 ELSE <<SubSeq(s, start, stop - 1)>> \o SplitFrom(s, stop + 1)

\* s.split() : the maximal runs of non-whitespace characters
Split(s) == SplitFrom(s, 1)

RECURSIVE StripFrom(_, _)
\* s from position i on with every leftmost match of <[^>]+> removed: a "<"
\* opens a match when the next ">" lies at least two positions after it
StripFrom(s, i) ==
    LET lt == FirstIndex(s, i, "<")
        gt == IF lt = 0 THEN 0 ELSE FirstIndex(s, lt + 1, ">")
    IN  IF lt = 0 \/ gt = 0 THEN SubSeq(s, i, Len(s))
        ELSE IF gt >= lt + 2
        THEN SubSeq(s, i, lt - 1) \o StripFrom(s, gt + 1)
        ELSE SubSeq(s, i, gt) \o StripFrom(s, gt + 1)

\* re.sub(r'<[^>]+>', '', s)
StripTags(s) == StripFrom(s, 1)

get_text_length_without_tags(text) == Len(StripTags(text))

(***************************************************************************)
(* String literals of the source.                                          *)
(***************************************************************************)
EM == "EM"

BIO_OVERFLOW == <<"B", "I", "O", "_", "O", "V", "E", "R", "F", "L", "O", "W">>

Ellipsis == <<".", ".", ".">>

TspanOpen(cls) == <<"<", "t", "s", "p", "a", "n", " ", "c", "l", "a", "s", "s", "=", "\"">>
                  \o cls \o <<"\"", ">">>

TspanClose == <<"<", "/", "t", "s", "p", "a", "n", ">">>

ClsValue == <<"v", "a", "l", "u", "e">>

ClsKey == <<"k", "e", "y">>

ClsSeparator == <<"s", "e", "p", "a", "r", "a", "t", "o", "r">>

(***************************************************************************)
(* format_line                                                             *)
(***************************************************************************)
IsHeaderKey(key) == StartsWith(key, EM) \/ StartsWith(key, "-")

\* the fill computed without subtracting the title
header_line_unsubtracted(key, total_width) == key \o Rep(EM, total_width)

header_line(key, total_width) == key \o Rep(EM, total_width - Len(key))

\* the key part without its separator
format_line_key_part_unseparated(key, separator) == <<".", " ">> \o key

format_line_key_part(key, separator) == <<".", " ">> \o key \o separator

\* dots_needed without the reset to 1 of the truncating branch
format_line_dots_unforced(key, value, total_width, separator) ==
    total_width - Len(format_line_key_part(key, separator)) - Len(<<" ">> \o value)

\* the number of fill dots of a key/value line of format_line
format_line_dots(key, value, total_width, separator) ==
    LET dots_needed == total_width - Len(format_line_key_part(key, separator))
                         - Len(<<" ">> \o value)
    IN  IF dots_needed < 1 THEN 1 ELSE dots_needed

format_line_value_part(key, value, total_width, separator) ==
    LET key_part == format_line_key_part(key, separator)
        value_part == <<" ">> \o value
        dots_needed == total_width - Len(key_part) - Len(value_part)
        available_for_value == total_width - Len(key_part) - 1
    IN  IF dots_needed < 1
        THEN <<" ">> \o SliceTo(value, available_for_value - 3) \o Ellipsis
        ELSE value_part

format_line(key, value, total_width, separator) ==
    IF IsHeaderKey(key) THEN header_line(key, total_width)
    ELSE IF key = BIO_OVERFLOW THEN value
    ELSE format_line_key_part(key, separator)
         \o Rep(".", format_line_dots(key, value, total_width, separator))
         \o format_line_value_part(key, value, total_width, separator)

(***************************************************************************)
(* format_styled_line_with_truncation and format_styled_line               *)
(***************************************************************************)
styled_key_part(key) == <<".", " ">> \o key \o <<":">>

\* available_for_value of format_styled_line_with_truncation
styled_available(key, total_width) == total_width - Len(styled_key_part(key)) - 1

\* simple_value after the inner truncation
styled_simple_value(key, value, total_width) ==
    LET available_for_value == styled_available(key, total_width)
        simple_value == StripTags(value)
    IN  IF Len(simple_value) > available_for_value
        THEN SliceTo(simple_value, available_for_value - 3) \o Ellipsis
        ELSE simple_value

\* styled_value : the value part of the emitted line
styled_value_part(key, value, total_width) ==
    IF get_text_length_without_tags(value) > styled_available(key, total_width)
    THEN TspanOpen(ClsValue) \o styled_simple_value(key, value, total_width)
         \o TspanClose
    ELSE value

\* dots_needed of format_styled_line_with_truncation
styled_dots(key, value, total_width) ==
    LET key_part == styled_key_part(key)
        text_length == get_text_length_without_tags(value)
    IN  IF text_length > styled_available(key, total_width)
        THEN Max(1, total_width - Len(key_part)
                      - Len(styled_simple_value(key, value, total_width)) - 1)
        ELSE Max(1, total_width - Len(key_part) - text_length - 1)

format_styled_line_with_truncation(key, value, total_width) ==
    IF IsHeaderKey(key)
    THEN TspanOpen(ClsSeparator) \o header_line(key, total_width) \o TspanClose
    ELSE IF key = BIO_OVERFLOW
    THEN TspanOpen(ClsValue) \o value \o TspanClose
    ELSE <<".", " ">> \o TspanOpen(ClsKey) \o key \o TspanClose \o <<":">>
         \o Rep(".", styled_dots(key, value, total_width))
         \o <<" ">> \o styled_value_part(key, value, total_width)

DefaultWidth == 75

\* special_styling is a mapping from keys to the string its lambda returns
\* (the lambdas of generate_svg ignore their argument); None is the empty
\* mapping
format_styled_line(key, value, special_styling) ==
    IF IsHeaderKey(key)
    THEN TspanOpen(ClsSeparator) \o header_line(key, DefaultWidth) \o TspanClose
    ELSE IF key = BIO_OVERFLOW
    THEN TspanOpen(ClsValue) \o value \o TspanClose
    ELSE IF key \in DOMAIN special_styling
    THEN format_styled_line_with_truncation(key, special_styling[key], DefaultWidth)
    ELSE format_styled_line_with_truncation(
             key, TspanOpen(ClsValue) \o value \o TspanClose, DefaultWidth)

(***************************************************************************)
(* format_bio_line                                                         *)
(***************************************************************************)
BioKeyPart == <<".", " ", "B", "i", "o", ":">>

min_dots == 8

\* the overflow_line_width argument is None or <<w>>
None == <<>>

\* the width computed from the SVG dimensions when the argument is None,
\* in tenths of a pixel (char_width = 8.4, x_main = 360, svg_width = 1024)
default_overflow_line_width ==
    LET char_width == 84
        x_main == 3600
        svg_width == 10240
        bio_text_start_x_approx == x_main + (6 + min_dots + 1) * char_width
        available_width_px == svg_width - bio_text_start_x_approx
        width == (available_width_px \div char_width) - 5
    IN  Max(50, Min(width, 70))

effective_overflow_line_width(overflow_line_width) ==
    IF overflow_line_width = None THEN default_overflow_line_width
    ELSE overflow_line_width[1]

bio_fits(bio_text, total_width) ==
    Len(bio_text) + min_dots <= total_width - Len(BioKeyPart)

\* the fits case without the column of the space before the bio
bio_fits_data_unspaced(bio_text, total_width) ==
    <<Max(min_dots, total_width - Len(BioKeyPart) - Len(bio_text)), bio_text>>

\* (dots_needed, bio_text) of the fits case
bio_fits_data(bio_text, total_width) ==
    LET space_after_key == total_width - Len(BioKeyPart)
    IN  <<Max(min_dots, space_after_key - Len(bio_text) - 1), bio_text>>

RECURSIVE first_line_pack(_, _, _, _)
\* the for loop over enumerate(words): the pair (first_line_bio, remaining_words)
first_line_pack(words, i, first_line_bio, first_line_bio_space) ==
    IF i >= Len(words) THEN <<first_line_bio, <<>>>>
    ELSE LET word == words[i + 1]
             test_line == first_line_bio
                          \o (IF first_line_bio # <<>> THEN <<" ">> ELSE <<>>)
                          \o word
         IN  IF Len(test_line) <= first_line_bio_space
             THEN first_line_pack(words, i + 1, test_line, first_line_bio_space)
             ELSE <<first_line_bio, SliceFrom(words, i)>>

\* the split with a budget that forgets the space before the bio
bio_first_split_unspaced(bio_text, total_width) ==
    LET first_line_bio_space == total_width - Len(BioKeyPart) - min_dots
    IN  IF first_line_bio_space > 0
        THEN LET packed == first_line_pack(Split(bio_text), 0, <<>>,
                                           first_line_bio_space)
             IN  <<packed[1], Join(packed[2], <<" ">>)>>
        ELSE <<<<>>, bio_text>>

\* the pair (first_line_bio, remaining_bio) of the overflow case
bio_first_split(bio_text, total_width) ==
    LET space_after_key == total_width - Len(BioKeyPart)
        first_line_bio_space == space_after_key - min_dots - 1
    IN  IF first_line_bio_space > 0
        THEN LET packed == first_line_pack(Split(bio_text), 0, <<>>,
                                           first_line_bio_space)
             IN  <<packed[1], Join(packed[2], <<" ">>)>>
        ELSE <<<<>>, bio_text>>

\* (total_dots, first_line_bio) of the overflow case
bio_overflow_data(first_line_bio, total_width) ==
    LET first_line_length == Len(BioKeyPart) + min_dots
                             + (IF first_line_bio # <<>> THEN 1 ELSE 0)
                             + Len(first_line_bio)
        additional_dots == total_width - first_line_length
    IN  <<min_dots + additional_dots, first_line_bio>>

\* the words of a line joined without the separating space
bio_line_text_unspaced(line_words) == Join(line_words, <<>>)

\* line_text = " ".join(current_line_words)
bio_line_text(line_words) == Join(line_words, <<" ">>)

\* the single over-long word of the inner else branch
bio_long_word(word, overflow_line_width) ==
    IF Len(word) > overflow_line_width
    THEN SliceTo(word, overflow_line_width - 3) \o Ellipsis
    ELSE word

(***************************************************************************)
(* format_bio_line as one function: the while loop run to its end.         *)
(***************************************************************************)
\* the last line, if any, after the loop
bio_last_line(current_words, lines, max_overflow_lines) ==
    IF current_words # <<>> /\ Len(lines) < max_overflow_lines
    THEN Append(lines, <<BIO_OVERFLOW, bio_line_text(current_words)>>)
    ELSE lines

RECURSIVE bio_overflow_loop(_, _, _, _, _, _)
bio_overflow_loop(words, index, current_words, lines, overflow_line_width, max_overflow_lines) ==
    IF index < Len(words) /\ Len(lines) < max_overflow_lines
    THEN LET word == words[index + 1]
             test_line == bio_line_text(Append(current_words, word))
         IN  IF Len(test_line) <= overflow_line_width
             THEN bio_overflow_loop(words, index + 1, Append(current_words, word),
                                    lines, overflow_line_width, max_overflow_lines)
             ELSE IF current_words # <<>>
             THEN bio_overflow_loop(words, index, <<>>,
                                    Append(lines, <<BIO_OVERFLOW,
                                                    bio_line_text(current_words)>>),
                                    overflow_line_width, max_overflow_lines)
             ELSE LET appended ==
                          Append(lines, <<BIO_OVERFLOW,
                                          bio_long_word(word, overflow_line_width)>>)
                  IN  IF Len(appended) >= max_overflow_lines
                      THEN bio_last_line(<<>>, appended, max_overflow_lines)
                      ELSE bio_overflow_loop(words, index + 1, <<>>, appended,
                                             overflow_line_width,
                                             max_overflow_lines)
    ELSE bio_last_line(current_words, lines, max_overflow_lines)

format_bio_line(bio_text, total_width, max_lines, overflow_line_width) ==
    IF bio_fits(bio_text, total_width)
    THEN <<bio_fits_data(bio_text, total_width), <<>>>>
    ELSE LET split == bio_first_split(bio_text, total_width)
             data == bio_overflow_data(split[1], total_width)
             remaining_bio == split[2]
         IN  <<data,
               IF remaining_bio # <<>>
               THEN bio_overflow_loop(Split(remaining_bio), 0, <<>>, <<>>,
                        effective_overflow_line_width(overflow_line_width),
                        max_lines - 1)
               ELSE <<>>>>


(***************************************************************************)
(* get_content_lines.  base_lines is the list that                         *)
(* get_profile_content_definition returns.                                 *)
(***************************************************************************)
BioKey == <<"B", "i", "o">>

GAP == <<"G", "A", "P">>

PLACEHOLDER == <<"P", "L", "A", "C", "E", "H", "O", "L", "D", "E", "R">>

\* the entry of a bio without its overflow lines
bio_entries_without_overflow(value) ==
    <<<<BioKey, format_bio_line(value, 75, 5, None)[1]>>>>

\* what the loop appends for a Bio entry: the bio data, then the overflow lines
bio_entries(value) ==
    LET formatted == format_bio_line(value, 75, 5, None)
    IN  <<<<BioKey, formatted[1]>>>> \o formatted[2]

RECURSIVE processed_lines(_, _)
\* processed_lines after the entries i.. of base_lines
processed_lines(base_lines, i) ==
    IF i > Len(base_lines) THEN <<>>
    ELSE (IF base_lines[i][1] = BioKey
          THEN bio_entries(base_lines[i][2])
          ELSE <<base_lines[i]>>)
         \o processed_lines(base_lines, i + 1)

get_content_lines(base_lines) == processed_lines(base_lines, 1)

\* generate_svg: the Bio first line built from (dots_count, bio_text)
bio_styled_line(value) ==
    LET dots_count == value[1]
        bio_text == value[2]
    IN  <<".", " ">> \o TspanOpen(ClsKey) \o <<"B", "i", "o">> \o TspanClose
        \o <<":">> \o Rep(".", dots_count)
        \o (IF bio_text # <<>>
            THEN <<" ">> \o TspanOpen(ClsValue) \o bio_text \o TspanClose
            ELSE <<>>)

(***************************************************************************)
(* clean_and_visible_length                                                *)
(*                                                                         *)
(* The characters of a display name are named by what they are; category   *)
(* and east_asian_width give the Unicode properties unicodedata reports    *)
(* for them.                                                               *)
(***************************************************************************)
\* U+5F20 and U+4E09, the CJK ideographs of the name in the source's example
ZH == "U5F20"

SAN == "U4E09"

\* U+FF21 FULLWIDTH LATIN CAPITAL LETTER A
FW == "UFF21"

\* U+200B ZERO WIDTH SPACE
ZWSP == "U200B"

\* U+202E RIGHT-TO-LEFT OVERRIDE
RLO == "U202E"

\* U+0301 COMBINING ACUTE ACCENT
ACUTE == "U0301"

\* U+20DD COMBINING ENCLOSING CIRCLE
ENC == "U20DD"

\* unicodedata.category(char)
category(char) ==
    CASE char \in {ZWSP, RLO, "U200C", "U200D", "U2060", "UFEFF", "U202A",
                   "U202B", "U202C", "U202D"} -> "Cf"
      [] char = ACUTE -> "Mn"
      [] char = ENC -> "Me"
      [] char \in {ZH, SAN} -> "Lo"
      [] char = EM -> "Pd"
      [] char = " " -> "Zs"
      [] char \in {".", "-", "@"} -> "Po"
      [] OTHER -> "Lu"

\* unicodedata.east_asian_width(char)
east_asian_width(char) ==
    CASE char \in {ZH, SAN} -> "W"
      [] char = FW -> "F"
      [] char \in {ACUTE, EM} -> "A"
      [] char \in {ZWSP, RLO, ENC, "U200C", "U200D", "U2060", "UFEFF", "U202A",
                   "U202B", "U202C", "U202D"} -> "N"
      [] OTHER -> "Na"

\* the explicit list of invisible characters
InvisibleList == {ZWSP, "U200C", "U200D", "U2060", "UFEFF", "U202A", "U202B",
                  "U202C", "U202D", RLO}

\* the categories skipped, without the enclosing marks
skipped_categories_without_Me == {"Cf", "Mn"}

skipped_categories == {"Cf", "Mn", "Me"}

\* the first loop keeps char
is_kept(char) ==
    /\ category(char) \notin skipped_categories
    /\ char \notin InvisibleList

\* the width of a character that also counts the Ambiguous class as wide
char_width_ambiguous(char) ==
    IF east_asian_width(char) \in {"F", "W", "A"} THEN 2 ELSE 1

\* 2 for Fullwidth or Wide, else 1
char_width(char) == IF east_asian_width(char) \in {"F", "W"} THEN 2 ELSE 1

RECURSIVE cleaned_text(_, _)
\* the first loop: cleaned, built from position i of text on
cleaned_text(text, i) ==
    IF i > Len(text) THEN <<>>
    ELSE (IF is_kept(text[i]) THEN <<text[i]>> ELSE <<>>) \o cleaned_text(text, i + 1)

RECURSIVE visual_length(_, _)
\* the second loop: visual_length, summed from position i of cleaned on
visual_length(cleaned, i) ==
    IF i > Len(cleaned) THEN 0
    ELSE char_width(cleaned[i]) + visual_length(cleaned, i + 1)

\* the pair (cleaned, visual_length)
clean_and_visible_length(text) ==
    IF text = <<>> THEN <<text, 0>>
    ELSE LET cleaned == cleaned_text(text, 1)
         IN  <<cleaned, visual_length(cleaned, 1)>>

(***************************************************************************)
(* format_username_header                                                  *)
(***************************************************************************)
end_part == <<EM, "-", EM, "-">>

fixed_parts(username) ==
    <<" ", "-", EM, "-", " ">> \o (<<"@">> \o username) \o <<" ", "-">>

\* available_for_name
header_available(username, total_width) ==
    total_width - (Len(fixed_parts(username)) + Len(end_part))

RECURSIVE header_truncate(_, _, _, _, _)
\* the truncation loop from position i of cleaned_name on: the pair
\* (truncated_name, current_length)
header_truncate(cleaned_name, i, truncated_name, current_length, available_for_name) ==
    IF i > Len(cleaned_name) THEN <<truncated_name, current_length>>
    ELSE IF current_length + char_width(cleaned_name[i]) + 3 > available_for_name
    THEN <<truncated_name \o Ellipsis, current_length>>
    ELSE header_truncate(cleaned_name, i + 1, Append(truncated_name, cleaned_name[i]),
                         current_length + char_width(cleaned_name[i]),
                         available_for_name)

\* the positions at or after i where "..." starts
EllipsisAt(s, i) ==
    {k \in i..(Len(s) - 2) : s[k] = "." /\ s[k + 1] = "." /\ s[k + 2] = "."}

\* "..." in s
ContainsEllipsis(s) == EllipsisAt(s, 1) # {}

\* s.endswith("...")
EndsWithEllipsis(s) == Len(s) >= 3 /\ SubSeq(s, Len(s) - 2, Len(s)) = Ellipsis

RECURSIVE RemoveEllipsisFrom(_, _)
RemoveEllipsisFrom(s, i) ==
    LET k == FirstOf(EllipsisAt(s, i))
    IN  IF k = 0 THEN SubSeq(s, i, Len(s))
        ELSE SubSeq(s, i, k - 1) \o RemoveEllipsisFrom(s, k + 3)

\* s.replace("...", "")
RemoveEllipsis(s) == RemoveEllipsisFrom(s, 1)

\* the pair (cleaned_name, name_visual_length) after the truncation step
header_name(full_name, username, total_width) ==
    LET cleaned == clean_and_visible_length(full_name)
        available_for_name == header_available(username, total_width)
    IN  IF cleaned[2] > available_for_name
        THEN LET t == header_truncate(cleaned[1], 1, <<>>, 0, available_for_name)
             IN  <<t[1], t[2] + (IF EndsWithEllipsis(t[1]) THEN 3 ELSE 0)>>
        ELSE cleaned

\* middle_dashes_needed after the visual adjustment and the clamp at 0
header_middle_dashes(cleaned_name, name_visual_length, username, total_width) ==
    LET start_part == cleaned_name \o fixed_parts(username)
        middle_dashes_needed == total_width - Len(start_part) - Len(end_part)
        visual_adjustment == name_visual_length - Len(RemoveEllipsis(cleaned_name))
                             - (IF ContainsEllipsis(cleaned_name) THEN 3 ELSE 0)
    IN  Max(0, middle_dashes_needed - visual_adjustment)

format_username_header(full_name, username, total_width) ==
    LET name == header_name(full_name, username, total_width)
    IN  name[1] \o fixed_parts(username)
        \o Rep(EM, header_middle_dashes(name[1], name[2], username, total_width))
        \o end_part

(***************************************************************************)
(* Input domains.                                                          *)
(***************************************************************************)
RECURSIVE SeqsUpTo(_, _)
\* all sequences over S of length at most n
SeqsUpTo(S, n) ==
    IF n = 0 THEN {<<>>}
    ELSE LET shorter == SeqsUpTo(S, n - 1)
         IN  shorter \cup {Append(s, c) : s \in shorter, c \in S}

KeyChars == {"a", "-", EM}

Keys == SeqsUpTo(KeyChars, MaxKeyLen) \cup {BIO_OVERFLOW}

PlainValues == SeqsUpTo({"x", "y"}, MaxValueLen)

Widths == 0..MaxWidth

Separators == {<<":">>}

RECURSIVE Concats(_, _)
\* all concatenations of at most n elements of the set of strings T
Concats(T, n) ==
    IF n = 0 THEN {<<>>}
    ELSE LET shorter == Concats(T, n - 1)
         IN  shorter \cup {s \o t : s \in shorter, t \in T}

TagOpen == <<"<", "t", ">">>

TagClose == <<"<", "/", "t", ">">>

\* values with inline markup, balanced or not
StyledValues == Concats({<<"x">>, <<"x", "y">>, TagOpen, TagClose}, MaxTokens)

LongValueLen == 80

LongValue == Rep("x", LongValueLen)

Stylings ==
    {<<>>} \cup {(<<"a">> :> v) :
                   v \in {TagOpen \o <<"x">> \o TagClose,
                          TagOpen \o LongValue \o TagClose}}

BioTexts == SeqsUpTo({"a", "b", " "}, MaxBioLen)

LongBioWords == 12

\* a bio of several lines under the default overflow width, and a single
\* word longer than the default overflow width
LongBios == {Join(Rep(<<"a", "b", "a", "b", "a", "b", "a">>, LongBioWords), <<" ">>),
             Rep("a", LongValueLen)}

BioWidths == MinBioWidth..MaxBioWidth

MaxLinesValues == 0..MaxMaxLines

\* -1 stands for the negative widths, which the signature admits
OverflowWidths == {None} \cup {<<w>> : w \in {-1} \cup MinOverflowWidth..MaxOverflowWidth}

NameChars == {"A", ".", ZH, ZWSP, ACUTE}

\* display names with several "...", with the other kinds of character, and
\* the name and handle of the source's example
NameExamples == {<<".", ".", ".", ".", ".", ".">>,
                 <<"A", ".", ".", ".", "A", ".", ".", ".">>,
                 <<ZH, SAN>>, <<FW, "A">>, <<"A", ENC, RLO>>, <<EM, "A">>,
                 <<" ">>, <<" ", " ">>}

Names == SeqsUpTo(NameChars, MaxNameLen) \cup NameExamples

ExampleHandle == <<"z", "h", "a", "n", "g", "s", "a", "n">>

Handles == {<<>>, <<"u">>}

HeaderWidths == MinHeaderWidth..MaxHeaderWidth

\* the calls of format_username_header: all small ones, and the call of
\* generate_svg's width with the example name
HeaderInputs ==
    (Names \X Handles \X HeaderWidths)
    \cup {<<<<ZH, SAN>>, ExampleHandle, DefaultWidth>>}

\* the key and value of the "Editors" entry of get_profile_content_definition
EditorsKey == <<"E", "d", "i", "t", "o", "r", "s">>

EditorsValue == <<"C", "u", "r", "s", "o", "r", ",", " ", "D", "o", "o", "m", " ",
                  "E", "m", "a", "c", "s">>

FormatLineInputs ==
    (Keys \X PlainValues \X Widths \X Separators)
    \cup {<<EditorsKey, EditorsValue, DefaultWidth, <<":">>>>}

\* a short bio at the default width, five lines and overflow width 60
ShortBio == <<"H", "i", ".">>

\* a bio whose second word is longer than the first-line budget and than the
\* overflow width, and whose third word is short
GreedyBio == <<"a", "b", " ", "a", "b", "c", "d", "e", "f", "g", "h", " ", "a">>

BioInputs ==
    ((BioTexts \cup LongBios) \X BioWidths \X MaxLinesValues \X OverflowWidths)
    \cup {<<ShortBio, DefaultWidth, 5, <<60>>>>}
    \cup {<<GreedyBio, total_width, 5, <<5>>>> : total_width \in {14, 19}}

\* the bio of get_profile_content_definition
SourceBio ==
    <<"W", "e", " ", "a", "r", "e", " ", "n", "o", "t", " ", "g",
      "i", "v", "e", "n", " ", "a", " ", "s", "h", "o", "r", "t",
      " ", "l", "i", "f", "e", " ", "b", "u", "t", " ", "w", "e",
      " ", "m", "a", "k", "e", " ", "i", "t", " ", "s", "h", "o",
      "r", "t", ",", " ", "a", "n", "d", " ", "w", "e", " ", "a",
      "r", "e", " ", "n", "o", "t", " ", "i", "l", "l", "-", "s",
      "u", "p", "p", "l", "i", "e", "d", " ", "b", "u", "t", " ",
      "w", "a", "s", "t", "e", "f", "u", "l", " ", "o", "f", " ",
      "i", "t", ".", " ", "Y", "o", "u", " ", "k", "n", "o", "w",
      " ", "h", "o", "w", " ", "i", "m", "p", "o", "r", "t", "a",
      "n", "t", " ", "y", "o", "u", "r", " ", "t", "i", "m", "e",
      " ", "i", "s", ",", " ", "y", "e", "t", " ", "y", "o", "u",
      " ", "i", "g", "n", "o", "r", "e", " ", "i", "t", "s", " ",
      "p", "a", "s", "s", "a", "g", "e", " ", "a", "n", "d", " ",
      "e", "n", "g", "a", "g", "e", " ", "i", "n", " ", "l", "o",
      "w", "-", "v", "a", "l", "u", "e", " ", "a", "c", "t", "i",
      "v", "i", "t", "i", "e", "s", " ", "t", "h", "a", "t", " ",
      "p", "u", "l", "l", " ", "y", "o", "u", " ", "a", "w", "a",
      "y", " ", "f", "r", "o", "m", " ", "t", "h", "e", " ", "t",
      "h", "i", "n", "g", "s", " ", "t", "h", "a", "t", " ", "r",
      "e", "a", "l", "l", "y", " ", "m", "a", "t", "t", "e", "r",
      ".">>

\* the list of get_profile_content_definition, for one value of the uptime
SourceContent ==
    <<<<BioKey, SourceBio>>,
     <<<<"U", "p", "t", "i", "m", "e">>,
       <<"5", " ", "y", "e", "a", "r", "s", ",", " ", "3", " ", "m", "o", "n", "t", "h", "s", ",", " ", "1",
          "2", " ", "d", "a", "y", "s">>>>,
     <<<<"O", "S">>,
       <<"m", "a", "c", "O", "S">>>>,
     <<<<"E", "d", "i", "t", "o", "r", "s">>,
       <<"C", "u", "r", "s", "o", "r", ",", " ", "D", "o", "o", "m", " ", "E", "m", "a", "c", "s">>>>,
     <<GAP,
       <<>>>>,
     <<<<"L", "a", "n", "g", "u", "a", "g", "e", "s", ".", "P", "r", "o", "g", "r", "a", "m", "m", "i", "n",
          "g">>,
       <<"T", "y", "p", "e", "s", "c", "r", "i", "p", "t", ",", " ", "P", "y", "t", "h", "o", "n", ",", " ",
          "H", "a", "s", "k", "e", "l", "l", ",", " ", "S", "h", "e", "l", "l">>>>,
     <<<<"L", "a", "n", "g", "u", "a", "g", "e", "s", ".", "M", "a", "r", "k", "u", "p">>,
       <<"O", "r", "g", "-", "m", "o", "d", "e", ",", " ", "M", "a", "r", "k", "d", "o", "w", "n", ",", " ",
          "L", "a", "T", "e", "X">>>>,
     <<<<"L", "a", "n", "g", "u", "a", "g", "e", "s", ".", "R", "e", "a", "l">>,
       <<"E", "n", "g", "l", "i", "s", "h", ",", " ", "C", "h", "i", "n", "e", "s", "e">>>>,
     <<GAP,
       <<>>>>,
     <<<<EM, " ", "C", "o", "n", "t", "a", "c", "t", " ">>,
       <<>>>>,
     <<<<"E", "m", "a", "i", "l", ".", "C", "o", "n", "t", "a", "c", "t">>,
       <<"h", "i", "@", "t", "r", "i", "n", "e", ".", "d", "e", "v">>>>,
     <<<<"D", "i", "s", "c", "o", "r", "d">>,
       <<"d", "o", "t", "i", "n", "d", "i", "s", "c", "o", "r", "g">>>>,
     <<GAP,
       <<>>>>,
     <<<<EM, " ", "G", "i", "t", "H", "u", "b", " ", "S", "t", "a", "t", "i", "s", "t", "i", "c", "s", " ">>,
       <<>>>>,
     <<<<"R", "e", "p", "o", "s", "i", "t", "o", "r", "y">>,
       PLACEHOLDER>>,
     <<<<"C", "o", "m", "m", "i", "t", "s">>,
       PLACEHOLDER>>,
     <<<<"I", "s", "s", "u", "e", "s">>,
       PLACEHOLDER>>,
     <<<<"P", "u", "l", "l", " ", "R", "e", "q", "u", "e", "s", "t", "s">>,
       PLACEHOLDER>>>>

MaxEntries == 3

\* entries of the kinds that get_profile_content_definition returns: a bio, a
\* key with its value, a gap, a section header, a statistics placeholder
ContentEntries ==
    {<<BioKey, SourceBio>>, <<BioKey, ShortBio>>,
     <<<<"O", "S">>, <<"m", "a", "c", "O", "S">>>>,
     <<GAP, <<>>>>,
     <<<<EM, " ", "C", " ">>, <<>>>>,
     <<<<"I", "s", "s", "u", "e", "s">>, PLACEHOLDER>>}

ContentLists == SeqsUpTo(ContentEntries, MaxEntries) \cup {SourceContent}

(***************************************************************************)
(* State machine.                                                          *)
(***************************************************************************)
NoValue == <<>>

Init ==
    /\ pc = "ready"
    /\ op = "none"
    /\ args = NoValue
    /\ ret = NoValue
    /\ first_line_data = NoValue
    /\ remaining_words = <<>>
    /\ word_index = 0
    /\ current_line_words = <<>>
    /\ overflow_lines = <<>>
    /\ entry_index = 0
    /\ y_current = 0
    /\ bio_text_start_x = None
    /\ svg_content = <<>>
    /\ commands = <<>>
    /\ exit_status = None

CallFormatLine ==
    /\ pc = "ready"
    /\ \E inp \in FormatLineInputs :
       LET key == inp[1]
           value == inp[2]
           total_width == inp[3]
           separator == inp[4]
       IN
          /\ op' = "format_line"
          /\ args' = [key |-> key, value |-> value, total_width |-> total_width,
                      separator |-> separator]
          /\ ret' = format_line(key, value, total_width, separator)
    /\ pc' = "done"
    /\ UNCHANGED bio_locals
    /\ UNCHANGED <<render_locals, script_state>>

CallFormatStyledLineWithTruncation ==
    /\ pc = "ready"
    /\ \E key \in Keys, value \in StyledValues, total_width \in Widths :
          /\ op' = "format_styled_line_with_truncation"
          /\ args' = [key |-> key, value |-> value, total_width |-> total_width]
          /\ ret' = format_styled_line_with_truncation(key, value, total_width)
    /\ pc' = "done"
    /\ UNCHANGED bio_locals
    /\ UNCHANGED <<render_locals, script_state>>

CallFormatStyledLine ==
    /\ pc = "ready"
    /\ \E key \in Keys, value \in PlainValues \cup {LongValue},
          special_styling \in Stylings :
          /\ op' = "format_styled_line"
          /\ args' = [key |-> key, value |-> value, total_width |-> DefaultWidth,
                      special_styling |-> special_styling]
          /\ ret' = format_styled_line(key, value, special_styling)
    /\ pc' = "done"
    /\ UNCHANGED bio_locals
    /\ UNCHANGED <<render_locals, script_state>>

\* format_bio_line up to its first return or to the head of the while loop
CallFormatBioLine ==
    /\ pc = "ready"
    /\ \E inp \in BioInputs :
       LET bio_text == inp[1]
           total_width == inp[2]
           max_lines == inp[3]
           overflow_line_width == inp[4]
       IN
          /\ op' = "format_bio_line"
          /\ args' = [bio_text |-> bio_text, total_width |-> total_width,
                      max_lines |-> max_lines,
                      overflow_line_width |-> overflow_line_width]
          /\ IF bio_fits(bio_text, total_width)
             THEN /\ ret' = <<bio_fits_data(bio_text, total_width), <<>>>>
                  /\ pc' = "done"
                  /\ UNCHANGED bio_locals
             ELSE LET split == bio_first_split(bio_text, total_width)
                      data == bio_overflow_data(split[1], total_width)
                      remaining_bio == split[2]
                  IN  /\ first_line_data' = data
                      /\ overflow_lines' = <<>>
                      /\ current_line_words' = <<>>
                      /\ word_index' = 0
                      /\ IF remaining_bio # <<>>
                         THEN /\ remaining_words' = Split(remaining_bio)
                              /\ pc' = "bio_loop"
                              /\ ret' = ret
                         ELSE /\ remaining_words' = <<>>
                              /\ pc' = "done"
                              /\ ret' = <<data, <<>>>>
    /\ UNCHANGED <<render_locals, script_state>>

\* the while condition without the bound on the number of lines
bio_while_condition_unbounded == word_index < Len(remaining_words)

\* the while condition with the index allowed one past the last word
bio_while_condition_inclusive ==
    /\ word_index <= Len(remaining_words)
    /\ Len(overflow_lines) < args.max_lines - 1

bio_while_condition ==
    /\ word_index < Len(remaining_words)
    /\ Len(overflow_lines) < args.max_lines - 1

\* the loop body that keeps the words of a line it has just saved
BioLoopBody_unreset ==
    /\ pc = "bio_loop"
    /\ bio_while_condition
    /\ LET overflow_line_width ==
               effective_overflow_line_width(args.overflow_line_width)
           word == remaining_words[word_index + 1]
           test_line == bio_line_text(Append(current_line_words, word))
       IN  IF Len(test_line) <= overflow_line_width
           THEN /\ current_line_words' = Append(current_line_words, word)
                /\ word_index' = word_index + 1
                /\ UNCHANGED overflow_lines
           ELSE IF current_line_words # <<>>
           THEN /\ overflow_lines' =
                       Append(overflow_lines,
                              <<BIO_OVERFLOW, bio_line_text(current_line_words)>>)
                /\ UNCHANGED <<current_line_words, word_index>>
           ELSE /\ overflow_lines' =
                       Append(overflow_lines,
                              <<BIO_OVERFLOW, bio_long_word(word, overflow_line_width)>>)
                /\ word_index' = word_index + 1
                /\ UNCHANGED current_line_words
    /\ pc' = IF Len(overflow_lines') >= args.max_lines - 1
             THEN "bio_flush" ELSE "bio_loop"
    /\ UNCHANGED <<op, args, ret, first_line_data, remaining_words>>
    /\ UNCHANGED <<render_locals, script_state>>

\* one iteration of the while loop
BioLoopBody ==
    /\ pc = "bio_loop"
    /\ bio_while_condition
    /\ LET overflow_line_width ==
               effective_overflow_line_width(args.overflow_line_width)
           max_overflow_lines == args.max_lines - 1
           word == remaining_words[word_index + 1]
           test_line == bio_line_text(Append(current_line_words, word))
       IN  IF Len(test_line) <= overflow_line_width
           THEN /\ current_line_words' = Append(current_line_words, word)
                /\ word_index' = word_index + 1
                /\ pc' = "bio_loop"
                /\ UNCHANGED overflow_lines
           ELSE IF current_line_words # <<>>
           THEN /\ overflow_lines' =
                       Append(overflow_lines,
                              <<BIO_OVERFLOW, bio_line_text(current_line_words)>>)
                /\ current_line_words' = <<>>
                /\ pc' = "bio_loop"
                /\ UNCHANGED word_index
           ELSE /\ overflow_lines' =
                       Append(overflow_lines,
                              <<BIO_OVERFLOW, bio_long_word(word, overflow_line_width)>>)
                /\ word_index' = word_index + 1
                /\ pc' = IF Len(overflow_lines') >= max_overflow_lines
                         THEN "bio_flush" ELSE "bio_loop"
                /\ UNCHANGED current_line_words
    /\ UNCHANGED <<op, args, ret, first_line_data, remaining_words>>
    /\ UNCHANGED <<render_locals, script_state>>

\* the while condition fails
BioLoopExit ==
    /\ pc = "bio_loop"
    /\ ~bio_while_condition
    /\ pc' = "bio_flush"
    /\ UNCHANGED <<op, args, ret, bio_locals>>
    /\ UNCHANGED <<render_locals, script_state>>

\* the last line, if any, and the return
BioFlushReturn ==
    /\ pc = "bio_flush"
    /\ overflow_lines' =
          IF current_line_words # <<>> /\ Len(overflow_lines) < args.max_lines - 1
          THEN Append(overflow_lines,
                      <<BIO_OVERFLOW, bio_line_text(current_line_words)>>)
          ELSE overflow_lines
    /\ ret' = <<first_line_data, overflow_lines'>>
    /\ pc' = "done"
    /\ UNCHANGED <<op, args, first_line_data, remaining_words, word_index,
                   current_line_words>>
    /\ UNCHANGED <<render_locals, script_state>>

CallCleanAndVisibleLength ==
    /\ pc = "ready"
    /\ \E text \in Names :
          /\ op' = "clean_and_visible_length"
          /\ args' = [text |-> text]
          /\ ret' = clean_and_visible_length(text)
    /\ pc' = "done"
    /\ UNCHANGED bio_locals
    /\ UNCHANGED <<render_locals, script_state>>

CallFormatUsernameHeader ==
    /\ pc = "ready"
    /\ \E inp \in HeaderInputs :
          /\ op' = "format_username_header"
          /\ args' = [full_name |-> inp[1], username |-> inp[2],
                      total_width |-> inp[3]]
          /\ ret' = format_username_header(inp[1], inp[2], inp[3])
    /\ pc' = "done"
    /\ UNCHANGED bio_locals
    /\ UNCHANGED <<render_locals, script_state>>

CallGetContentLines ==
    /\ pc = "ready"
    /\ \E base_lines \in ContentLists :
          /\ op' = "get_content_lines"
          /\ args' = [base_lines |-> base_lines]
          /\ ret' = get_content_lines(base_lines)
    /\ pc' = "done"
    /\ UNCHANGED bio_locals
    /\ UNCHANGED <<render_locals, script_state>>

Next ==
    \/ CallGetContentLines
    \/ CallCleanAndVisibleLength
    \/ CallFormatUsernameHeader
    \/ CallFormatLine
    \/ CallFormatBioLine
    \/ BioLoopBody
    \/ BioLoopExit
    \/ BioFlushReturn
    \/ CallFormatStyledLineWithTruncation
    \/ CallFormatStyledLine

Spec == Init /\ [][Next]_vars

(***************************************************************************)
(* Concurrent calls.  The functions of lines 172-478 read their parameters *)
(* and module constants and assign local names only; there is no global    *)
(* or nonlocal statement and no attribute or container shared between      *)
(* calls.  Every variable is here a function of the thread, the locals of  *)
(* format_bio_line being held in the frame of the thread's call, and the   *)
(* threads take the steps of the while loop in any order.                  *)
(***************************************************************************)
NumThreads == 2

Threads == 1..NumThreads

\* one frame of locals for every call
frame_shared(t) == 1

\* a frame of locals of its own for each call
frame(t) == t

ConcTexts == {<<ZH, ZWSP, "A">>, <<"A", ".">>}

ConcFormatLineInputs ==
    {<<<<"a">>, <<"x">>, 12, <<":">>>>,
     <<<<"a">>, <<"x", "y", "x", "y", "x", "y", "x", "y">>, 12, <<":">>>>}

ConcStyledInputs ==
    {<<<<"a">>, <<"x">>, 12>>,
     <<<<"a">>, <<"x", "y", "x", "y", "x", "y", "x", "y">>, 12>>}

ConcHeaderInputs == {<<<<ZH, "A">>, <<"u">>, 18>>, <<<<"A", "A", ZH, ZH>>, <<"u">>, 18>>}

ConcBios ==
    {<<"a", "a", " ", "b", "b", " ", "c", "c", " ", "d", "d">>,
     <<"a", "b", "c", "d", "e", "f", "g", "h", " ", "i">>}

ConcBioInputs ==
    {<<bio, 14, max_lines, <<5>>>> : bio \in ConcBios, max_lines \in 2..3}
       \cup {<<ShortBio, 20, 2, <<5>>>>}

InitConc ==
    /\ pc = [t \in Threads |-> "ready"]
    /\ op = [t \in Threads |-> "none"]
    /\ args = [t \in Threads |-> NoValue]
    /\ ret = [t \in Threads |-> NoValue]
    /\ first_line_data = [t \in Threads |-> NoValue]
    /\ remaining_words = [t \in Threads |-> <<>>]
    /\ word_index = [t \in Threads |-> 0]
    /\ current_line_words = [t \in Threads |-> <<>>]
    /\ overflow_lines = [t \in Threads |-> <<>>]
    /\ entry_index = 0
    /\ y_current = 0
    /\ bio_text_start_x = None
    /\ svg_content = <<>>
    /\ commands = <<>>
    /\ exit_status = None

ThreadCleanAndVisibleLength(t) ==
    /\ pc[t] = "ready"
    /\ \E text \in ConcTexts :
          /\ op' = [op EXCEPT ![t] = "clean_and_visible_length"]
          /\ args' = [args EXCEPT ![t] = [text |-> text]]
          /\ ret' = [ret EXCEPT ![t] = clean_and_visible_length(text)]
    /\ pc' = [pc EXCEPT ![t] = "done"]
    /\ UNCHANGED bio_locals
    /\ UNCHANGED <<render_locals, script_state>>

ThreadFormatLine(t) ==
    /\ pc[t] = "ready"
    /\ \E inp \in ConcFormatLineInputs :
          /\ op' = [op EXCEPT ![t] = "format_line"]
          /\ args' = [args EXCEPT ![t] =
                         [key |-> inp[1], value |-> inp[2],
                          total_width |-> inp[3], separator |-> inp[4]]]
          /\ ret' = [ret EXCEPT ![t] =
                        format_line(inp[1], inp[2], inp[3], inp[4])]
    /\ pc' = [pc EXCEPT ![t] = "done"]
    /\ UNCHANGED bio_locals
    /\ UNCHANGED <<render_locals, script_state>>

ThreadFormatStyledLineWithTruncation(t) ==
    /\ pc[t] = "ready"
    /\ \E inp \in ConcStyledInputs :
          /\ op' = [op EXCEPT ![t] = "format_styled_line_with_truncation"]
          /\ args' = [args EXCEPT ![t] =
                         [key |-> inp[1], value |-> inp[2],
                          total_width |-> inp[3]]]
          /\ ret' = [ret EXCEPT ![t] =
                        format_styled_line_with_truncation(inp[1], inp[2], inp[3])]
    /\ pc' = [pc EXCEPT ![t] = "done"]
    /\ UNCHANGED bio_locals
    /\ UNCHANGED <<render_locals, script_state>>

ThreadFormatUsernameHeader(t) ==
    /\ pc[t] = "ready"
    /\ \E inp \in ConcHeaderInputs :
          /\ op' = [op EXCEPT ![t] = "format_username_header"]
          /\ args' = [args EXCEPT ![t] =
                         [full_name |-> inp[1], username |-> inp[2],
                          total_width |-> inp[3]]]
          /\ ret' = [ret EXCEPT ![t] =
                        format_username_header(inp[1], inp[2], inp[3])]
    /\ pc' = [pc EXCEPT ![t] = "done"]
    /\ UNCHANGED bio_locals
    /\ UNCHANGED <<render_locals, script_state>>

\* format_bio_line up to its first return or to the head of the while loop
ThreadFormatBioLine(t) ==
    /\ pc[t] = "ready"
    /\ \E inp \in ConcBioInputs :
       LET bio_text == inp[1]
           total_width == inp[2]
           f == frame(t)
       IN
          /\ op' = [op EXCEPT ![t] = "format_bio_line"]
          /\ args' = [args EXCEPT ![t] =
                         [bio_text |-> bio_text, total_width |-> total_width,
                          max_lines |-> inp[3], overflow_line_width |-> inp[4]]]
          /\ IF bio_fits(bio_text, total_width)
             THEN /\ ret' = [ret EXCEPT ![t] =
                                <<bio_fits_data(bio_text, total_width), <<>>>>]
                  /\ pc' = [pc EXCEPT ![t] = "done"]
                  /\ UNCHANGED bio_locals
             ELSE LET split == bio_first_split(bio_text, total_width)
                      data == bio_overflow_data(split[1], total_width)
                      remaining_bio == split[2]
                  IN  /\ first_line_data' = [first_line_data EXCEPT ![f] = data]
                      /\ overflow_lines' = [overflow_lines EXCEPT ![f] = <<>>]
                      /\ current_line_words' =
                             [current_line_words EXCEPT ![f] = <<>>]
                      /\ word_index' = [word_index EXCEPT ![f] = 0]
                      /\ IF remaining_bio # <<>>
                         THEN /\ remaining_words' =
                                    [remaining_words EXCEPT
                                        ![f] = Split(remaining_bio)]
                              /\ pc' = [pc EXCEPT ![t] = "bio_loop"]
                              /\ ret' = ret
                         ELSE /\ remaining_words' =
                                    [remaining_words EXCEPT ![f] = <<>>]
                              /\ pc' = [pc EXCEPT ![t] = "done"]
                              /\ ret' = [ret EXCEPT ![t] = <<data, <<>>>>]
    /\ UNCHANGED <<render_locals, script_state>>

thread_while_condition(t) ==
    /\ word_index[frame(t)] < Len(remaining_words[frame(t)])
    /\ Len(overflow_lines[frame(t)]) < args[t].max_lines - 1

\* one iteration of the while loop of thread t
ThreadBioLoopBody(t) ==
    /\ pc[t] = "bio_loop"
    /\ thread_while_condition(t)
    /\ LET f == frame(t)
           overflow_line_width ==
               effective_overflow_line_width(args[t].overflow_line_width)
           max_overflow_lines == args[t].max_lines - 1
           word == remaining_words[f][word_index[f] + 1]
           test_line == bio_line_text(Append(current_line_words[f], word))
       IN  IF Len(test_line) <= overflow_line_width
           THEN /\ current_line_words' =
                       [current_line_words EXCEPT ![f] = Append(@, word)]
                /\ word_index' = [word_index EXCEPT ![f] = @ + 1]
                /\ UNCHANGED <<pc, overflow_lines>>
           ELSE IF current_line_words[f] # <<>>
           THEN /\ overflow_lines' =
                       [overflow_lines EXCEPT
                           ![f] = Append(@, <<BIO_OVERFLOW,
                                              bio_line_text(current_line_words[f])>>)]
                /\ current_line_words' = [current_line_words EXCEPT ![f] = <<>>]
                /\ UNCHANGED <<pc, word_index>>
           ELSE /\ overflow_lines' =
                       [overflow_lines EXCEPT
                           ![f] = Append(@, <<BIO_OVERFLOW,
                                              bio_long_word(word,
                                                            overflow_line_width)>>)]
                /\ word_index' = [word_index EXCEPT ![f] = @ + 1]
                /\ pc' = [pc EXCEPT ![t] =
                             IF Len(overflow_lines'[f]) >= max_overflow_lines
                             THEN "bio_flush" ELSE "bio_loop"]
                /\ UNCHANGED current_line_words
    /\ UNCHANGED <<op, args, ret, first_line_data, remaining_words>>
    /\ UNCHANGED <<render_locals, script_state>>

\* the while condition of thread t fails
ThreadBioLoopExit(t) ==
    /\ pc[t] = "bio_loop"
    /\ ~thread_while_condition(t)
    /\ pc' = [pc EXCEPT ![t] = "bio_flush"]
    /\ UNCHANGED <<op, args, ret, bio_locals>>
    /\ UNCHANGED <<render_locals, script_state>>

\* the last line, if any, and the return of thread t
ThreadBioFlushReturn(t) ==
    /\ pc[t] = "bio_flush"
    /\ LET f == frame(t)
       IN  /\ overflow_lines' =
                  [overflow_lines EXCEPT
                      ![f] = bio_last_line(current_line_words[f], @,
                                           args[t].max_lines - 1)]
           /\ ret' = [ret EXCEPT ![t] = <<first_line_data[f], overflow_lines'[f]>>]
    /\ pc' = [pc EXCEPT ![t] = "done"]
    /\ UNCHANGED <<op, args, first_line_data, remaining_words, word_index,
                   current_line_words>>
    /\ UNCHANGED <<render_locals, script_state>>

NextConc ==
    \/ \E t \in Threads : ThreadCleanAndVisibleLength(t)
    \/ \E t \in Threads : ThreadFormatLine(t)
    \/ \E t \in Threads : ThreadFormatStyledLineWithTruncation(t)
    \/ \E t \in Threads : ThreadFormatUsernameHeader(t)
    \/ \E t \in Threads : ThreadFormatBioLine(t)
    \/ \E t \in Threads : ThreadBioLoopBody(t)
    \/ \E t \in Threads : ThreadBioLoopExit(t)
    \/ \E t \in Threads : ThreadBioFlushReturn(t)

SpecConc == InitConc /\ [][NextConc]_vars

(***************************************************************************)
(* src/action-amend-commit.py.  The environment of a run, held in args, is *)
(* the e-mail of the last commit's author, what git log prints for it and  *)
(* the set of git commands that end with a non-zero return code.  commands *)
(* is the list of git commands run so far, each with its outcome.          *)
(***************************************************************************)
BotEmail == "github-actions[bot]@users.noreply.github.com"

AuthorEmails == {BotEmail, "GitHub-Actions[bot]@users.noreply.github.com", "hi@trine.dev"}

GitLog == "git log -1 --pretty=format:%ae"

GitAddAll == "git add -A"

GitCommitAmend == "git commit --amend --no-edit"

GitPushForce == "git push --force-with-lease"

GitCommitAll == "git commit -a -m Update Profile [skip ci]"

GitPushPlain == "git push"

GitCommands == {GitLog, GitAddAll, GitCommitAmend, GitPushForce, GitCommitAll, GitPushPlain}

Whitespace == {" ", "\n"}

\* what git log writes for an e-mail, with or without a line end
Stdouts(email) == {<<email>>, <<email, "\n">>}

\* str.strip() that removes nothing
strip_nothing(out) == out

\* str.strip(): out without its leading and trailing whitespace
strip(out) ==
    LET kept == {i \in 1..Len(out) : out[i] \notin Whitespace}
    IN  IF kept = {} THEN <<>>
        ELSE SubSeq(out, CHOOSE i \in kept : \A j \in kept : i <= j,
                    CHOOSE i \in kept : \A j \in kept : i >= j)

\* check=True with the return code ignored
raises_never(command) == FALSE

\* check=True: CalledProcessError for a non-zero return code
raises(command) == command \in args.failing

InitScript ==
    /\ pc = "main"
    /\ op = "none"
    /\ \E email \in AuthorEmails, failing \in SUBSET GitCommands :
          \E out \in Stdouts(email) :
             args = [author_email |-> email, stdout |-> out, failing |-> failing]
    /\ ret = None
    /\ commands = <<>>
    /\ exit_status = None
    /\ first_line_data = NoValue
    /\ remaining_words = <<>>
    /\ word_index = 0
    /\ current_line_words = <<>>
    /\ overflow_lines = <<>>
    /\ entry_index = 0
    /\ y_current = 0
    /\ bio_text_start_x = None
    /\ svg_content = <<>>

\* get_last_commit_author: the exception of a failing git log is not caught
\* and ends the process with status 1
GetLastCommitAuthor ==
    /\ pc = "main"
    /\ commands' = Append(commands, <<GitLog, ~raises(GitLog)>>)
    /\ IF raises(GitLog)
       THEN /\ pc' = "exited"
            /\ exit_status' = 1
            /\ ret' = ret
       ELSE /\ pc' = "author_read"
            /\ ret' = strip(args.stdout)
            /\ UNCHANGED exit_status
    /\ UNCHANGED <<op, args, bio_locals, render_locals>>

\* main: the comparison of the author with the bot's e-mail
MainBranch ==
    /\ pc = "author_read"
    /\ IF ret = <<BotEmail>>
       THEN op' = "amend_last_commit" /\ pc' = "amend_add"
       ELSE op' = "create_new_commit" /\ pc' = "new_commit"
    /\ UNCHANGED <<args, ret, bio_locals, render_locals, script_state>>

AmendAdd ==
    /\ pc = "amend_add"
    /\ commands' = Append(commands, <<GitAddAll, ~raises(GitAddAll)>>)
    /\ IF raises(GitAddAll)
       THEN pc' = "exited" /\ exit_status' = 1
       ELSE pc' = "amend_commit" /\ UNCHANGED exit_status
    /\ UNCHANGED <<op, args, ret, bio_locals, render_locals>>

AmendCommit ==
    /\ pc = "amend_commit"
    /\ commands' = Append(commands, <<GitCommitAmend, ~raises(GitCommitAmend)>>)
    /\ IF raises(GitCommitAmend)
       THEN pc' = "exited" /\ exit_status' = 1
       ELSE pc' = "amend_push" /\ UNCHANGED exit_status
    /\ UNCHANGED <<op, args, ret, bio_locals, render_locals>>

\* the last command of amend_last_commit; main returns None and the process
\* exits with status 0
AmendPush ==
    /\ pc = "amend_push"
    /\ commands' = Append(commands, <<GitPushForce, ~raises(GitPushForce)>>)
    /\ pc' = "exited"
    /\ exit_status' = IF raises(GitPushForce) THEN 1 ELSE 0
    /\ UNCHANGED <<op, args, ret, bio_locals, render_locals>>

NewCommit ==
    /\ pc = "new_commit"
    /\ commands' = Append(commands, <<GitCommitAll, ~raises(GitCommitAll)>>)
    /\ IF raises(GitCommitAll)
       THEN pc' = "exited" /\ exit_status' = 1
       ELSE pc' = "new_push" /\ UNCHANGED exit_status
    /\ UNCHANGED <<op, args, ret, bio_locals, render_locals>>

\* the last command of create_new_commit
NewPush ==
    /\ pc = "new_push"
    /\ commands' = Append(commands, <<GitPushPlain, ~raises(GitPushPlain)>>)
    /\ pc' = "exited"
    /\ exit_status' = IF raises(GitPushPlain) THEN 1 ELSE 0
    /\ UNCHANGED <<op, args, ret, bio_locals, render_locals>>

NextScript ==
    \/ GetLastCommitAuthor
    \/ MainBranch
    \/ AmendAdd
    \/ AmendCommit
    \/ AmendPush
    \/ NewCommit
    \/ NewPush

SpecScript == InitScript /\ [][NextScript]_vars

(***************************************************************************)
(* The render loop of generate_svg (lines 1339-1380).  A run starts at the *)
(* head of the loop, with content_lines as get_content_lines returned it   *)
(* and y_current = y_start + 25.  svg_content holds the text elements the  *)
(* loop has appended, each with its x, its y and its line; an x is in      *)
(* tenths of a pixel, the width of a character being 8.4 pixels.           *)
(***************************************************************************)
line_height == 18

top_margin == 35

x_main == 3600

char_width_tenths == 84

Tagged(cls, body) == TspanOpen(cls) \o body \o TspanClose

KeyRepository == <<"R", "e", "p", "o", "s", "i", "t", "o", "r", "y">>

KeyCommits == <<"C", "o", "m", "m", "i", "t", "s">>

KeyIssues == <<"I", "s", "s", "u", "e", "s">>

KeyPullRequests == <<"P", "u", "l", "l", " ", "R", "e", "q", "u", "e", "s", "t", "s">>

StatisticsKeys == {KeyRepository, KeyCommits, KeyIssues, KeyPullRequests}

\* special_styling for a user whose counts all print as count, the open pull
\* requests that are not drafts being none
special_styling_of(count) ==
    LET Labelled(label, cls, n) ==
            Tagged(ClsValue, Tagged(ClsKey, label) \o <<":", " ">> \o Tagged(cls, n))
        Pipe == <<" ", "|", " ">>
    IN
    (KeyRepository :>
        (Tagged(ClsValue, count \o <<" ", "(">>
                          \o Tagged(ClsKey, <<"C", "o", "n", "t", "r", "i", "b", "u", "t", "e", "d">>)
                          \o <<":", " ">> \o count \o <<")">>)
         \o Pipe
         \o Tagged(ClsValue, Tagged(ClsKey, <<"S", "t", "a", "r", "s">>)
                             \o <<":", " ">> \o count)
         \o Pipe
         \o Tagged(ClsValue, Tagged(ClsKey, <<"F", "o", "l", "l", "o", "w", "e", "r", "s">>)
                             \o <<":", " ">> \o count)))
    @@ (KeyCommits :> Tagged(ClsValue, count))
    @@ (KeyIssues :>
          (Labelled(<<"O", "p", "e", "n">>, <<"g", "r", "e", "e", "n">>, count)
           \o Pipe
           \o Labelled(<<"C", "l", "o", "s", "e", "d">>, <<"r", "e", "d">>, count)))
    @@ (KeyPullRequests :>
          (Labelled(<<"O", "p", "e", "n">>, <<"g", "r", "e", "e", "n">>, <<"0">>)
           \o Pipe
           \o Labelled(<<"D", "r", "a", "f", "t">>, <<"g", "r", "a", "y">>, count)
           \o Pipe
           \o Labelled(<<"M", "e", "r", "g", "e", "d">>, <<"p", "u", "r", "p", "l", "e">>, count)
           \o Pipe
           \o Labelled(<<"C", "l", "o", "s", "e", "d">>, <<"r", "e", "d">>, count)))

Counts == {<<"0">>, <<"4", "2">>}

InitRender ==
    /\ pc = "render_loop"
    /\ op = "generate_svg"
    /\ \E base_lines \in ContentLists, count \in Counts :
          args = [content_lines |-> get_content_lines(base_lines),
                  special_styling |-> special_styling_of(count)]
    /\ ret = None
    /\ entry_index = 0
    /\ y_current = top_margin + 25
    /\ bio_text_start_x = None
    /\ svg_content = <<>>
    /\ first_line_data = NoValue
    /\ remaining_words = <<>>
    /\ word_index = 0
    /\ current_line_words = <<>>
    /\ overflow_lines = <<>>
    /\ commands = <<>>
    /\ exit_status = None

\* the entry the for statement binds next
render_entry == args.content_lines[entry_index + 1]

InLoop == pc = "render_loop" /\ entry_index < Len(args.content_lines)

TextElement(x, y, styled_line) == [x |-> x, y |-> y, line |-> styled_line]

\* a gap that appends an empty text element
RenderGap_with_text ==
    /\ InLoop
    /\ render_entry[1] = GAP
    /\ svg_content' = Append(svg_content, TextElement(x_main, y_current, <<>>))
    /\ y_current' = y_current + line_height
    /\ entry_index' = entry_index + 1
    /\ UNCHANGED <<pc, op, args, ret, bio_text_start_x, bio_locals, script_state>>

RenderGap ==
    /\ InLoop
    /\ render_entry[1] = GAP
    /\ y_current' = y_current + line_height
    /\ entry_index' = entry_index + 1
    /\ UNCHANGED <<pc, op, args, ret, bio_text_start_x, svg_content, bio_locals, script_state>>

RenderBio ==
    /\ InLoop
    /\ render_entry[1] = BioKey
    /\ bio_text_start_x' =
          IF render_entry[2][2] # <<>>
          THEN <<x_main + (6 + render_entry[2][1] + 1) * char_width_tenths>>
          ELSE bio_text_start_x
    /\ svg_content' = Append(svg_content,
                             TextElement(x_main, y_current,
                                         bio_styled_line(render_entry[2])))
    /\ y_current' = y_current + line_height
    /\ entry_index' = entry_index + 1
    /\ UNCHANGED <<pc, op, args, ret, bio_locals, script_state>>

RenderBioOverflow ==
    /\ InLoop
    /\ render_entry[1] = BIO_OVERFLOW
    /\ LET overflow_x == IF bio_text_start_x # None THEN bio_text_start_x[1]
                         ELSE x_main
       IN  svg_content' = Append(svg_content,
                                 TextElement(overflow_x, y_current,
                                             Tagged(ClsValue, render_entry[2])))
    /\ y_current' = y_current + line_height
    /\ entry_index' = entry_index + 1
    /\ UNCHANGED <<pc, op, args, ret, bio_text_start_x, bio_locals, script_state>>

RenderStatistics ==
    /\ InLoop
    /\ render_entry[1] \in StatisticsKeys
    /\ svg_content' = Append(svg_content,
                             TextElement(x_main, y_current,
                                         format_styled_line(render_entry[1], PLACEHOLDER,
                                                            args.special_styling)))
    /\ y_current' = y_current + line_height
    /\ entry_index' = entry_index + 1
    /\ UNCHANGED <<pc, op, args, ret, bio_text_start_x, bio_locals, script_state>>

RenderLine ==
    /\ InLoop
    /\ render_entry[1] \notin {GAP, BioKey, BIO_OVERFLOW} \cup StatisticsKeys
    /\ svg_content' = Append(svg_content,
                             TextElement(x_main, y_current,
                                         format_styled_line(render_entry[1], render_entry[2],
                                                            args.special_styling)))
    /\ y_current' = y_current + line_height
    /\ entry_index' = entry_index + 1
    /\ UNCHANGED <<pc, op, args, ret, bio_text_start_x, bio_locals, script_state>>

\* the for statement is exhausted
RenderLoopEnd ==
    /\ pc = "render_loop"
    /\ entry_index = Len(args.content_lines)
    /\ pc' = "rendered"
    /\ UNCHANGED <<op, args, ret, bio_locals, render_locals, script_state>>

NextRender ==
    \/ RenderGap
    \/ RenderBio
    \/ RenderBioOverflow
    \/ RenderStatistics
    \/ RenderLine
    \/ RenderLoopEnd

SpecRender == InitRender /\ [][NextRender]_vars

(***************************************************************************)
(* Measurements on returned lines, used to state the properties.           *)
(***************************************************************************)
Returned(name) == pc = "done" /\ op = name

IsKeyValueKey(key) == ~IsHeaderKey(key) /\ key # BIO_OVERFLOW

\* the length of the run of "." that starts at position start of line
FillDots(line, start) ==
    LET stop == FirstOther(line, start, ".")
    IN  IF stop = 0 THEN Len(line) - start + 1 ELSE stop - start

\* the first n characters of s, none when n <= 0
FirstChars(s, n) == SubSeq(s, 1, Min(Max(n, 0), Len(s)))

\* the length of ". " + key + ":"
KeyPartLen(key) == 2 + Len(key) + 1

\* the length of '. <tspan class="key">' + key + '</tspan>:'
StyledKeyPartLen(key) ==
    2 + Len(TspanOpen(ClsKey)) + Len(key) + Len(TspanClose) + 1

\* the value part of a styled key/value line: what follows the fill dots and
\* the space after them
StyledLineValue(line, key) ==
    LET start == StyledKeyPartLen(key) + 1
    IN  SubSeq(line, start + FillDots(line, start) + 1, Len(line))

\* the name of the tag s[lt..gt]
TagName(s, lt, gt) ==
    LET from == IF s[lt + 1] = "/" THEN lt + 2 ELSE lt + 1
        sp == FirstIndex(SubSeq(s, 1, gt - 1), from, " ")
    IN  SubSeq(s, from, IF sp = 0 THEN gt - 1 ELSE sp - 1)

RECURSIVE BalancedFrom(_, _, _)
\* the tags of s from position i on close the open tags of stack, innermost
\* last, in order and leave none open
BalancedFrom(s, i, stack) ==
    LET lt == FirstIndex(s, i, "<")
        gt == IF lt = 0 THEN 0 ELSE FirstIndex(s, lt + 1, ">")
    IN  IF lt = 0 \/ gt = 0 THEN stack = <<>>
        ELSE IF gt < lt + 2 THEN BalancedFrom(s, gt + 1, stack)
        ELSE IF s[lt + 1] = "/"
        THEN /\ stack # <<>>
             /\ stack[Len(stack)] = TagName(s, lt, gt)
             /\ BalancedFrom(s, gt + 1, SubSeq(stack, 1, Len(stack) - 1))
        ELSE BalancedFrom(s, gt + 1, Append(stack, TagName(s, lt, gt)))

\* every opening tag of s is closed by a tag of its name, properly nested
Balanced(s) == BalancedFrom(s, 1, <<>>)

\* the overflow width format_bio_line packs with
PackWidth == effective_overflow_line_width(args.overflow_line_width)

(***************************************************************************)
(* C1: format_line returns a string of exactly total_width characters for  *)
(* every key, value and total_width with                                   *)
(* len('. '+key+':') + len(' '+value) + 1 <= total_width.                  *)
(***************************************************************************)
C1_ExactWidth ==
    (/\ Returned("format_line")
     /\ KeyPartLen(args.key) + (1 + Len(args.value)) + 1 <= args.total_width)
    => Len(ret) = args.total_width

(***************************************************************************)
(* C2: the Bio first line as rendered from the (dots, text) pair returned  *)
(* by format_bio_line is exactly total_width characters long once its      *)
(* markup is stripped, in the fits case and in the overflow case.          *)
(***************************************************************************)
C2_BioFirstLineWidth ==
    Returned("format_bio_line")
    => get_text_length_without_tags(bio_styled_line(ret[1])) = args.total_width

C4_OverflowLineWidth ==
    Returned("format_bio_line")
    => \A i \in 1..Len(ret[2]) : Len(ret[2][i][2]) <= PackWidth

(***************************************************************************)
(* C5: the words of every overflow line are a contiguous sub-sequence of   *)
(* the bio's word list, in order, and a word differs from the original     *)
(* only if the original is longer than overflow_line_width.                *)
(***************************************************************************)
C5_NoWordSplitting ==
    Returned("format_bio_line")
    => LET words == Split(args.bio_text)
       IN  \A i \in 1..Len(ret[2]) :
             LET line_words == Split(ret[2][i][2])
             IN  /\ Len(line_words) >= 1
                 /\ \E start \in 0..(Len(words) - Len(line_words)) :
                       \A j \in 1..Len(line_words) :
                          \/ line_words[j] = words[start + j]
                          \/ Len(words[start + j]) > PackWidth

\* an overflow line of two or more unaltered words was returned
C5_Witness ==
    /\ Returned("format_bio_line")
    /\ \E i \in 1..Len(ret[2]) :
          /\ Len(Split(ret[2][i][2])) >= 2
          /\ \A j \in 1..Len(Split(ret[2][i][2])) :
                Len(Split(ret[2][i][2])[j]) <= PackWidth

(***************************************************************************)
(* C6: format_bio_line never holds or returns more than max_lines - 1      *)
(* overflow lines (none when max_lines < 1); with that many lines produced *)
(* the loop is left, the words not yet placed are dropped, and the call    *)
(* returns its (first line, overflow lines) pair.                          *)
(***************************************************************************)
C6_MaxLines ==
    op = "format_bio_line"
    => /\ Len(overflow_lines) <= Max(0, args.max_lines - 1)
       /\ (pc = "bio_loop" /\ Len(overflow_lines) >= args.max_lines - 1)
            => ~ENABLED BioLoopBody
       /\ pc = "done"
            => /\ Len(ret) = 2
               /\ Len(ret[2]) <= Max(0, args.max_lines - 1)
               /\ \A i \in 1..Len(ret[2]) : ret[2][i][1] = BIO_OVERFLOW

\* the cap was reached with words left over, and the call returned
C6_Witness ==
    /\ Returned("format_bio_line")
    /\ args.max_lines >= 2
    /\ Len(ret[2]) = args.max_lines - 1
    /\ word_index < Len(remaining_words)

(***************************************************************************)
(* C7: for a value with balanced tags the value part emitted by            *)
(* format_styled_line_with_truncation has balanced tags and a tag-stripped *)
(* length of at most total_width - len('. '+key+':') - 1.                  *)
(***************************************************************************)
C7_TruncationSafe ==
    (/\ Returned("format_styled_line_with_truncation")
     /\ IsKeyValueKey(args.key)
     /\ Balanced(args.value))
    => LET emitted == StyledLineValue(ret, args.key)
       IN  /\ Balanced(emitted)
           /\ get_text_length_without_tags(emitted)
                <= args.total_width - KeyPartLen(args.key) - 1

(***************************************************************************)
(* C8: with budget B = total_width - len('. '+key+':') - 1, a value whose  *)
(* tag-stripped length exceeds B is emitted as one value span around the   *)
(* first B - 3 characters of the stripped text and '...', of tag-stripped  *)
(* length exactly B; any other value is emitted unchanged.                 *)
(***************************************************************************)
C8_TruncatedValue ==
    (Returned("format_styled_line_with_truncation") /\ IsKeyValueKey(args.key))
    => LET B == args.total_width - KeyPartLen(args.key) - 1
           text == StripTags(args.value)
           emitted == StyledLineValue(ret, args.key)
       IN  IF Len(text) > B
           THEN /\ emitted = TspanOpen(ClsValue) \o FirstChars(text, B - 3)
                               \o Ellipsis \o TspanClose
                /\ get_text_length_without_tags(emitted) = B
           ELSE emitted = args.value

(***************************************************************************)
(* C9: for a key that is neither a header key nor 'BIO_OVERFLOW' the line  *)
(* returned by format_styled_line_with_truncation, also when called by     *)
(* format_styled_line, has exactly total_width characters once its tags    *)
(* are stripped.                                                           *)
(***************************************************************************)
C9_StyledExactWidth ==
    (/\ pc = "done"
     /\ op \in {"format_styled_line_with_truncation", "format_styled_line"}
     /\ IsKeyValueKey(args.key))
    => get_text_length_without_tags(ret) = args.total_width

\* the text of a section-header line: the line itself for format_line, the
\* content of the separator span for the styled formatters
HeaderText ==
    IF op = "format_line" THEN ret
    ELSE SubSeq(ret, Len(TspanOpen(ClsSeparator)) + 1, Len(ret) - Len(TspanClose))

HeaderReturned ==
    /\ pc = "done"
    /\ op \in {"format_line", "format_styled_line_with_truncation",
                "format_styled_line"}
    /\ IsHeaderKey(args.key)

IsInvisibleChar(c) == category(c) \in {"Cf", "Mn", "Me"} \/ c \in InvisibleList

IsVisibleChar(c) == ~IsInvisibleChar(c)

IsWideChar(c) == east_asian_width(c) \in {"F", "W"}

\* the number of Fullwidth or Wide characters of s
WideCount(s) == Cardinality({i \in 1..Len(s) : IsWideChar(s[i])})

\* columns of a string without invisible characters
Columns(s) == Len(s) + WideCount(s)

\* text without its invisible characters
VisibleText(text) == SelectSeq(text, IsVisibleChar)

\* the length of ' -EM- @' + handle + ' -' + 'EM-EM-'
TemplateLen(username) == 5 + 1 + Len(username) + 2 + 4

\* the name at the head of a header line: what precedes ' -EM- @'
EmittedName(line) == SubSeq(line, 1, FirstIndex(line, 1, "@") - 6)

IsPrefix(p, s) == Len(p) <= Len(s) /\ SubSeq(s, 1, Len(p)) = p

\* p is the longest prefix of s of at most budget columns
LongestPrefixWithin(p, s, budget) ==
    /\ IsPrefix(p, s)
    /\ Columns(p) <= budget
    /\ Len(p) < Len(s) => Columns(SubSeq(s, 1, Len(p) + 1)) > budget

(***************************************************************************)
(* C11: format_username_header always returns exactly total_width raw      *)
(* characters, for every display name, wide characters included, and every *)
(* handle.                                                                 *)
(***************************************************************************)
C11_HeaderRawWidth ==
    Returned("format_username_header") => Len(ret) = args.total_width

(***************************************************************************)
(* C11, what the code keeps of it: whenever total_width is at least the    *)
(* template length plus 3 the result has at most total_width raw           *)
(* characters, and for a name that does not contain '...' it has exactly   *)
(* total_width minus the number of wide characters of the emitted name,    *)
(* that is exactly total_width columns.                                    *)
(***************************************************************************)
C11_HeaderWidth ==
    (/\ Returned("format_username_header")
     /\ args.total_width >= TemplateLen(args.username) + 3)
    => /\ Len(ret) <= args.total_width
       /\ ~ContainsEllipsis(VisibleText(args.full_name))
            => Len(ret) = args.total_width - WideCount(EmittedName(ret))

\* the example name of two wide characters at width 75: 73 raw characters
C11_Witness ==
    /\ Returned("format_username_header")
    /\ args.full_name = <<ZH, SAN>>
    /\ args.username = ExampleHandle
    /\ args.total_width = 75
    /\ Len(ret) = 73

(***************************************************************************)
(* C12: with available = total_width - template length, a name of at most  *)
(* available columns is emitted unchanged, and any other name as its       *)
(* longest prefix of at most available - 3 columns followed by '...'.      *)
(***************************************************************************)
C12_TruncationAlways ==
    Returned("format_username_header")
    => LET cleaned == VisibleText(args.full_name)
           available == args.total_width - TemplateLen(args.username)
           emitted == EmittedName(ret)
       IN  IF Columns(cleaned) <= available
           THEN emitted = cleaned
           ELSE /\ EndsWithEllipsis(emitted)
                /\ LongestPrefixWithin(SubSeq(emitted, 1, Len(emitted) - 3),
                                       cleaned, available - 3)

(***************************************************************************)
(* C12, what the code does: a name of at most available columns is emitted *)
(* unchanged; a wider name is emitted, when available >= 3, as its longest *)
(* prefix of at most available - 3 columns followed by '...', and when     *)
(* available < 3 as '...' alone, or as the empty name if nothing of the    *)
(* name is visible.                                                        *)
(***************************************************************************)
C12_Truncation ==
    Returned("format_username_header")
    => LET cleaned == VisibleText(args.full_name)
           available == args.total_width - TemplateLen(args.username)
           emitted == EmittedName(ret)
       IN  IF Columns(cleaned) <= available
           THEN emitted = cleaned
           ELSE IF available >= 3
           THEN /\ EndsWithEllipsis(emitted)
                /\ LongestPrefixWithin(SubSeq(emitted, 1, Len(emitted) - 3),
                                       cleaned, available - 3)
           ELSE emitted = (IF cleaned = <<>> THEN <<>> ELSE Ellipsis)

\* a name cut after a wide character, with room left for the ellipsis
C12_Witness ==
    /\ Returned("format_username_header")
    /\ Columns(VisibleText(args.full_name))
         > args.total_width - TemplateLen(args.username)
    /\ Len(EmittedName(ret)) >= 5
    /\ WideCount(EmittedName(ret)) >= 1
    /\ EndsWithEllipsis(EmittedName(ret))

(***************************************************************************)
(* C13: with total_width smaller than the header template length, or       *)
(* smaller than min_dots plus the six columns of '. Bio:', the formatter   *)
(* fails with a configuration error and does not return a line.            *)
(***************************************************************************)
C13_FailFast ==
    /\ ~(/\ Returned("format_username_header")
         /\ args.total_width < TemplateLen(args.username))
    /\ ~(/\ Returned("format_bio_line")
         /\ args.total_width < min_dots + Len(BioKeyPart))

(***************************************************************************)
(* C14: an entry with a value is rendered as a key/value line whatever the *)
(* spelling of its key: the line starts with '. ' + key + ':', it is not a *)
(* header line without the value nor the bare value without the key.       *)
(***************************************************************************)
C14_KindIndependentOfKey ==
    (/\ pc = "done"
     /\ op \in {"format_line", "format_styled_line_with_truncation",
                 "format_styled_line"}
     /\ args.value # <<>>)
    => LET text == IF op = "format_line" THEN ret ELSE StripTags(ret)
       IN  FirstChars(text, KeyPartLen(args.key))
             = <<".", " ">> \o args.key \o <<":">>

(***************************************************************************)
(* C15: in the fits case, len(bio) + min_dots <= total_width - 6,          *)
(* format_bio_line returns (max(min_dots, total_width - 6 - len(bio) - 1), *)
(* bio) with the bio unchanged and no overflow line.                       *)
(***************************************************************************)
C15_FitsCase ==
    (/\ Returned("format_bio_line")
     /\ Len(args.bio_text) + 8 <= args.total_width - 6)
    => ret = <<<<Max(8, args.total_width - 6 - Len(args.bio_text) - 1),
                 args.bio_text>>,
               <<>>>>

\* 'Hi.' at width 75: 65 dots and no overflow line
C15_Witness ==
    /\ Returned("format_bio_line")
    /\ args.bio_text = ShortBio
    /\ args.total_width = 75
    /\ ret[1][1] = 65
    /\ ret[2] = <<>>

EditorsCall ==
    /\ Returned("format_line")
    /\ args.key = EditorsKey
    /\ args.value = EditorsValue
    /\ args.total_width = 75
    /\ args.separator = <<":">>

(***************************************************************************)
(* C16 as stated: format_line('Editors', 'Cursor, Doom Emacs', 75, ':') is *)
(* '. Editors:', 45 dots and ' Cursor, Doom Emacs', 75 characters long.    *)
(***************************************************************************)
C16_Editors45Dots ==
    EditorsCall
    => /\ ret = <<".", " ">> \o EditorsKey \o <<":">> \o Rep(".", 45)
                \o <<" ">> \o EditorsValue
       /\ Len(ret) = 75

(***************************************************************************)
(* C16 as amended: format_line('Editors', 'Cursor, Doom Emacs', 75, ':')   *)
(* is '. Editors:', 46 dots and ' Cursor, Doom Emacs', 75 characters long. *)
(***************************************************************************)
C16_Editors46Dots ==
    EditorsCall
    => /\ ret = <<".", " ">> \o EditorsKey \o <<":">> \o Rep(".", 46)
                \o <<" ">> \o EditorsValue
       /\ Len(ret) = 75

C16_Witness == EditorsCall /\ Len(ret) = 75 /\ FillDots(ret, 11) = 46

(***************************************************************************)
(* C17: clean_and_visible_length returns the text with exactly its         *)
(* invisible characters removed, the others in order, and the width        *)
(* 2 x (wide characters kept) + 1 x (other characters kept).               *)
(***************************************************************************)
C17_CleanAndWidth ==
    Returned("clean_and_visible_length")
    => /\ ret[1] = VisibleText(args.text)
       /\ ret[2] = 2 * WideCount(ret[1]) + (Len(ret[1]) - WideCount(ret[1]))

\* a text that lost an invisible character and kept a wide one
C17_Witness ==
    /\ Returned("clean_and_visible_length")
    /\ \E i \in 1..Len(args.text) : IsInvisibleChar(args.text[i])
    /\ Len(ret[1]) >= 2
    /\ WideCount(ret[1]) >= 1
    /\ WideCount(ret[1]) < Len(ret[1])

(***************************************************************************)
(* C18: a text without wide and invisible characters has a width equal to  *)
(* its length, and cleaning a cleaned text returns it unchanged with the   *)
(* same width.                                                             *)
(***************************************************************************)
C18_Idempotent ==
    Returned("clean_and_visible_length")
    => /\ (\A i \in 1..Len(args.text) :
              IsVisibleChar(args.text[i]) /\ ~IsWideChar(args.text[i]))
            => ret = <<args.text, Len(args.text)>>
       /\ clean_and_visible_length(ret[1]) = ret

\* a text of narrow visible characters, one of them of ambiguous width
C18_Witness ==
    /\ Returned("clean_and_visible_length")
    /\ Len(args.text) >= 2
    /\ \A i \in 1..Len(args.text) :
          IsVisibleChar(args.text[i]) /\ ~IsWideChar(args.text[i])
    /\ \E i \in 1..Len(args.text) : east_asian_width(args.text[i]) = "A"

IsStr(s) == \A i \in 1..Len(s) : s[i] \in STRING

(***************************************************************************)
(* C19: format_line, format_styled_line_with_truncation, format_bio_line   *)
(* and format_username_header return a result for every string input: the  *)
(* only indexed read, remaining_words[word_index], is in range, every      *)
(* state inside a call has a next step, and what is returned is a string   *)
(* (for format_bio_line a dot count, a string and a list of strings).      *)
(***************************************************************************)
C19_Total ==
    /\ (pc = "bio_loop" /\ bio_while_condition)
         => word_index + 1 \in 1..Len(remaining_words)
    /\ pc \in {"ready", "done", "bio_loop", "bio_flush"}
    /\ pc \in {"bio_loop", "bio_flush"} => ENABLED Next
    /\ (pc = "done" /\ op \in {"format_line", "format_styled_line_with_truncation",
                                "format_username_header"})
         => IsStr(ret)
    /\ Returned("format_bio_line")
         => /\ ret[1][1] \in Int
            /\ IsStr(ret[1][2])
            /\ \A i \in 1..Len(ret[2]) : IsStr(ret[2][i][2])

\* a bio of whitespace only that does not fit was processed
C19_Witness ==
    /\ Returned("format_bio_line")
    /\ args.bio_text # <<>>
    /\ Split(args.bio_text) = <<>>
    /\ ~bio_fits(args.bio_text, args.total_width)
    /\ ret[2] = <<>>

\* the result of the call made alone
Alone(name, a) ==
    CASE name = "clean_and_visible_length" -> clean_and_visible_length(a.text)
      [] name = "format_line" ->
            format_line(a.key, a.value, a.total_width, a.separator)
      [] name = "format_styled_line_with_truncation" ->
            format_styled_line_with_truncation(a.key, a.value, a.total_width)
      [] name = "format_username_header" ->
            format_username_header(a.full_name, a.username, a.total_width)
      [] name = "format_bio_line" ->
            format_bio_line(a.bio_text, a.total_width, a.max_lines,
                            a.overflow_line_width)

(***************************************************************************)
(* C20: under every interleaving of concurrent calls of the layout         *)
(* functions, each call returns what the same call returns when made alone *)
(* with the same arguments.                                                *)
(***************************************************************************)
C20_SameAsAlone ==
    \A t \in Threads : pc[t] = "done" => ret[t] = Alone(op[t], args[t])

\* a call of format_bio_line has returned its wrapped lines while another
\* call, with another bio, is inside its while loop
C20_Witness ==
    \E t, u \in Threads :
       /\ pc[t] = "done"
       /\ op[t] = "format_bio_line"
       /\ Len(ret[t][2]) >= 2
       /\ pc[u] = "bio_loop"
       /\ word_index[u] > 0
       /\ args[u].bio_text # args[t].bio_text

(***************************************************************************)
(* C22: in the truncating branch of format_line,                           *)
(* total_width - len(key_part) - len(value_part) < 1, the result is        *)
(* key_part + one '.' + ' ' + the first (available - 3) characters of      *)
(* value + '...', with available = total_width - len(key_part) - 1, and it *)
(* is at most one character longer than total_width.                       *)
(***************************************************************************)
C22_TruncatingBranch ==
    (/\ Returned("format_line")
     /\ IsKeyValueKey(args.key)
     /\ args.total_width - KeyPartLen(args.key) - (1 + Len(args.value)) < 1)
    => LET available == args.total_width - KeyPartLen(args.key) - 1
       IN  /\ ret = <<".", " ">> \o args.key \o <<":">> \o <<".", " ">>
                      \o FirstChars(args.value, available - 3) \o Ellipsis
           /\ Len(ret) <= args.total_width + 1

\* the bio call is in its overflow case, past the split of the first line
BioOverflowCase ==
    /\ op = "format_bio_line"
    /\ pc \in {"bio_loop", "bio_flush", "done"}
    /\ Len(args.bio_text) + 8 > args.total_width - 6

\* the first n words joined by single spaces
JoinedPrefix(words, n) == Join(SubSeq(words, 1, n), <<" ">>)

\* the number of words of the longest prefix that joins to at most budget
\* characters, none when nothing fits
LongestFit(words, budget) ==
    CHOOSE n \in 0..Len(words) :
       /\ n = 0 \/ Len(JoinedPrefix(words, n)) <= budget
       /\ n < Len(words) => Len(JoinedPrefix(words, n + 1)) > budget

(***************************************************************************)
(* C23: in the overflow case of format_bio_line the first-line text is the *)
(* single-space join of the longest prefix of the bio's words that joins   *)
(* to at most total_width - 6 - min_dots - 1 characters, and the remainder *)
(* is every other word, in order, a later word that would fit included.    *)
(***************************************************************************)
C23_GreedyFirstLine ==
    BioOverflowCase
    => LET words == Split(args.bio_text)
           n == LongestFit(words, args.total_width - 6 - 8 - 1)
       IN  /\ first_line_data[2] = JoinedPrefix(words, n)
           /\ remaining_words = SubSeq(words, n + 1, Len(words))

\* a word was left out of the first line and a later word that would have
\* fitted there went to the remainder
C23_Witness ==
    /\ BioOverflowCase
    /\ pc = "done"
    /\ first_line_data[2] # <<>>
    /\ \E j \in 2..Len(remaining_words) :
          Len(first_line_data[2]) + 1 + Len(remaining_words[j])
             <= args.total_width - 6 - 8 - 1

(***************************************************************************)
(* C24: a remainder word longer than overflow_line_width that the loop     *)
(* has taken stands alone on an overflow line as its first                 *)
(* overflow_line_width - 3 characters followed by '...', after the line of *)
(* the words before it.                                                    *)
(***************************************************************************)
C24_LongWordAlone ==
    Returned("format_bio_line")
    => \A k \in 1..word_index :
          Len(remaining_words[k]) > PackWidth
          => \E i \in 1..Len(ret[2]) :
                /\ ret[2][i][2] = FirstChars(remaining_words[k], PackWidth - 3)
                                     \o Ellipsis
                /\ k >= 2 => i >= 2

(***************************************************************************)
(* Progress of the overflow-packing loop.                                  *)
(***************************************************************************)
\* twice the words not yet taken, plus one for a line being filled
LoopVariant ==
    2 * (Len(remaining_words) - word_index)
      + (IF current_line_words # <<>> THEN 1 ELSE 0)

\* a step of the loop body
LoopIteration == pc = "bio_loop" /\ (word_index' # word_index \/ overflow_lines' # overflow_lines \/ current_line_words' # current_line_words)

(***************************************************************************)
(* C27: the overflow-packing loop of format_bio_line terminates for every  *)
(* word list, overflow_line_width and max_lines: every iteration takes a   *)
(* word or emits an overflow line, a line emitted without taking a word    *)
(* leaves no word pending so that the next iteration takes one, and a      *)
(* natural-number variant decreases at every iteration.                    *)
(***************************************************************************)
C27_LoopTerminates ==
    /\ [](op = "format_bio_line" => LoopVariant >= 0)
    /\ [][LoopIteration
            => /\ LoopVariant' < LoopVariant
               /\ \/ word_index' = word_index + 1
                  \/ /\ Len(overflow_lines') = Len(overflow_lines) + 1
                     /\ current_line_words # <<>>
                     /\ current_line_words' = <<>>]_vars

\* the loop ran with a width of 0 and at least two words and the call returned
C27_Witness ==
    /\ Returned("format_bio_line")
    /\ PackWidth <= 0
    /\ word_index >= 2
    /\ Len(ret[2]) >= 2

RECURSIVE LineWords(_, _)
\* the words of the overflow lines i.. of a result, in order
LineWords(lines, i) ==
    IF i > Len(lines) THEN <<>>
    ELSE Split(lines[i][2]) \o LineWords(lines, i + 1)

\* placed stands for word: the word itself or a cut of it ending in '...'
StandsFor(placed, word, width) ==
    \/ placed = word
    \/ /\ Len(word) > width
       /\ EndsWithEllipsis(placed)
       /\ IsPrefix(SubSeq(placed, 1, Len(placed) - 3), word)

(***************************************************************************)
(* C28: in the overflow case of format_bio_line the first-line words       *)
(* followed by the words of the overflow lines in order are a prefix of    *)
(* the bio's word list, an over-long word standing as its truncation, and  *)
(* the whole list whenever fewer than max_lines - 1 overflow lines were    *)
(* produced.                                                               *)
(***************************************************************************)
C28_WordsArePrefix ==
    (BioOverflowCase /\ pc = "done")
    => LET words == Split(args.bio_text)
           first_words == Split(ret[1][2])
           placed == first_words \o LineWords(ret[2], 1)
       IN  /\ Len(placed) <= Len(words)
           /\ \A j \in 1..Len(placed) :
                 IF j <= Len(first_words) THEN placed[j] = words[j]
                 ELSE StandsFor(placed[j], words[j], PackWidth)
           /\ Len(ret[2]) < args.max_lines - 1 => Len(placed) = Len(words)

\* words on the first line, on two overflow lines one of them cut, and none
\* lost
C28_Witness ==
    /\ BioOverflowCase
    /\ pc = "done"
    /\ ret[1][2] # <<>>
    /\ Len(ret[2]) >= 2
    /\ Len(ret[2]) < args.max_lines - 1
    /\ \E i \in 1..Len(ret[2]) : EndsWithEllipsis(ret[2][i][2])

(***************************************************************************)
(* C29: for total_width at least the template length plus 3 the line       *)
(* returned by format_username_header is exactly total_width columns wide, *)
(* wide characters counted as 2, names containing '...' and truncated      *)
(* names included.                                                         *)
(***************************************************************************)
C29_HeaderColumns ==
    (/\ Returned("format_username_header")
     /\ args.total_width >= TemplateLen(args.username) + 3)
    => Columns(ret) = args.total_width

(***************************************************************************)
(* Measurements on a run of the commit script.                             *)
(***************************************************************************)
AmendPath == <<GitAddAll, GitCommitAmend, GitPushForce>>

NewCommitPath == <<GitCommitAll, GitPushPlain>>

\* the git commands run after git log, without their outcomes
PathRun == [i \in 1..(Len(commands) - 1) |-> commands[i + 1][1]]

\* the commands of path were started, in order, and no other command
RunsPath(path) ==
    /\ PathRun # <<>>
    /\ IsPrefix(PathRun, path)

Exited == pc = "exited"

AuthorWasRead == Len(commands) >= 1 /\ commands[1][2]

(***************************************************************************)
(* C21 as stated: every invocation runs exactly one of the two paths, the  *)
(* amend path if and only if the last commit's author e-mail is the bot's. *)
(***************************************************************************)
C21_OnePathAlways ==
    Exited
    => /\ RunsPath(AmendPath) <=> args.author_email = BotEmail
       /\ RunsPath(NewCommitPath) <=> args.author_email # BotEmail

(***************************************************************************)
(* C21 as amended: an invocation in which git log succeeds runs exactly    *)
(* one of the two paths, the amend path if and only if the last commit's   *)
(* author e-mail is the bot's; an invocation in which git log fails runs   *)
(* neither.                                                                *)
(***************************************************************************)
C21_OnePath ==
    Exited
    => IF AuthorWasRead
       THEN /\ RunsPath(AmendPath) <=> args.author_email = BotEmail
            /\ RunsPath(NewCommitPath) <=> args.author_email # BotEmail
       ELSE PathRun = <<>>

\* the amend path ran to its end for an output of git log that ends a line
C21_Witness ==
    /\ Exited
    /\ args.stdout = <<BotEmail, "\n">>
    /\ PathRun = AmendPath
    /\ exit_status = 0

(***************************************************************************)
(* C30: the git commands of a path run in order and the first failing one  *)
(* ends the run: a failed command is the last one run, nothing follows a   *)
(* failed git log, and the process exits with a non-zero status exactly    *)
(* when a command has failed, with status 0 only after the whole path.     *)
(***************************************************************************)
C30_FirstFailureStops ==
    /\ \A i \in 1..Len(commands) :
          /\ ~commands[i][2] => i = Len(commands) /\ Exited /\ exit_status = 1
          /\ commands[i][2] <=> commands[i][1] \notin args.failing
    /\ commands # <<>> => commands[1][1] = GitLog
    /\ IsPrefix(PathRun, AmendPath) \/ IsPrefix(PathRun, NewCommitPath)
    /\ Exited
         => /\ exit_status \in {0, 1}
            /\ exit_status = 0
                 => /\ \A i \in 1..Len(commands) : commands[i][2]
                    /\ PathRun \in {AmendPath, NewCommitPath}
    /\ ~Exited => exit_status = None /\ ENABLED NextScript

\* the commit of the amend path failed after a successful add, with a push
\* that would have succeeded
C30_Witness ==
    /\ Exited
    /\ PathRun = <<GitAddAll, GitCommitAmend>>
    /\ GitPushForce \notin args.failing
    /\ exit_status = 1

\* the bio data and overflow lines of a Bio entry under the defaults of
\* format_bio_line
Formatted(entry) == format_bio_line(entry[2], 75, 5, None)

RECURSIVE OutPosition(_, _)
\* where the entry i of base_lines stands in the processed lines
OutPosition(base_lines, i) ==
    IF i = 1 THEN 1
    ELSE OutPosition(base_lines, i - 1) + 1
         + (IF base_lines[i - 1][1] = BioKey
            THEN Len(Formatted(base_lines[i - 1])[2]) ELSE 0)

(***************************************************************************)
(* C25: get_content_lines returns the entries of the content definition in *)
(* their order, each Bio entry replaced by ('Bio', (dots, text)) followed  *)
(* at once by the overflow lines of that bio in order, every other entry   *)
(* unchanged, and every BIO_OVERFLOW entry of the result is an overflow    *)
(* line that format_bio_line produced for the Bio entry before it.         *)
(***************************************************************************)
C25_ContentLines ==
    Returned("get_content_lines")
    => LET base_lines == args.base_lines
           n == Len(base_lines)
       IN  /\ Len(ret) = OutPosition(base_lines, n + 1) - 1
           /\ \A i \in 1..n :
                 LET p == OutPosition(base_lines, i)
                 IN  IF base_lines[i][1] = BioKey
                     THEN /\ ret[p] = <<BioKey, Formatted(base_lines[i])[1]>>
                          /\ \A k \in 1..Len(Formatted(base_lines[i])[2]) :
                                ret[p + k] = Formatted(base_lines[i])[2][k]
                     ELSE ret[p] = base_lines[i]
           /\ \A p \in 1..Len(ret) :
                 ret[p][1] = BIO_OVERFLOW
                 => \E i \in 1..n :
                       /\ base_lines[i][1] = BioKey
                       /\ p - OutPosition(base_lines, i)
                            \in 1..Len(Formatted(base_lines[i])[2])

\* a bio between two other entries was replaced by its data and four
\* overflow lines
C25_Witness ==
    /\ Returned("get_content_lines")
    /\ Len(args.base_lines) = 3
    /\ args.base_lines[1][1] # BioKey
    /\ args.base_lines[2] = <<BioKey, SourceBio>>
    /\ args.base_lines[3][1] # BioKey
    /\ Len(ret) = 7
    /\ ret[7] = args.base_lines[3]

(***************************************************************************)
(* Measurements on the render loop.                                        *)
(***************************************************************************)
\* the positions, among the first n entries, of those that are not gaps
TextEntries(n) == {i \in 1..n : args.content_lines[i][1] # GAP}

\* the position of the entry rendered by the k-th text element
EntryOfElement(k) ==
    CHOOSE i \in TextEntries(entry_index) :
       Cardinality(TextEntries(i)) = k

(***************************************************************************)
(* C26: in the render loop a GAP entry appends no text element and moves   *)
(* the cursor down by one line height, every other entry appends exactly   *)
(* one text element at the cursor and then moves the cursor down by one    *)
(* line height; after n entries the cursor is at y_start + 25 + 18 n, and  *)
(* the text elements are those of the entries that are not gaps, in order, *)
(* with strictly increasing y.                                             *)
(***************************************************************************)
C26_RenderLoop ==
    /\ [](op = "generate_svg"
           => /\ y_current = 35 + 25 + 18 * entry_index
              /\ Len(svg_content) = Cardinality(TextEntries(entry_index))
              /\ \A k \in 1..Len(svg_content) :
                    /\ svg_content[k].y = 35 + 25 + 18 * (EntryOfElement(k) - 1)
                    /\ k > 1 => svg_content[k - 1].y < svg_content[k].y
                    /\ args.content_lines[EntryOfElement(k)][1] = BIO_OVERFLOW
                         => svg_content[k].line
                              = TspanOpen(ClsValue)
                                \o args.content_lines[EntryOfElement(k)][2]
                                \o TspanClose)
    /\ [][(op = "generate_svg" /\ entry_index' # entry_index)
            => /\ entry_index' = entry_index + 1
               /\ y_current' = y_current + 18
               /\ IF args.content_lines[entry_index + 1][1] = GAP
                  THEN svg_content' = svg_content
                  ELSE /\ Len(svg_content') = Len(svg_content) + 1
                       /\ SubSeq(svg_content', 1, Len(svg_content)) = svg_content
                       /\ svg_content'[Len(svg_content')].y = y_current]_vars

\* the whole content of the source was rendered: 17 entries and 4 overflow
\* lines, 3 of them gaps
C26_Witness ==
    /\ pc = "rendered"
    /\ Len(args.content_lines) = 22
    /\ Len(svg_content) = 19
    /\ y_current = 35 + 25 + 18 * 22

====
